---- MODULE Spec2Model ----
(***************************************************************************)
(* The service worker of src/client/scripts/generate-sitemap.js (lines     *)
(* 55-370): the fetch dispatcher, the three caching strategies, the        *)
(* eviction pass, the install/activate handlers and the message handler,   *)
(* over a model of the CacheStorage the worker uses.                       *)
(*                                                                         *)
(* Strings are sequences of tokens, the separators "/" and "-" being       *)
(* tokens of their own: '/api/data' is <<"/","api","/","data">> and        *)
(* 'static-v2' is <<"static","-","v2">>, so that String.startsWith is the  *)
(* prefix test on sequences.                                               *)
(*                                                                         *)
(* Every await of the source is a step boundary: an action is the code     *)
(* that runs between two awaits of one async function (or the settling of  *)
(* one un-awaited promise), and the actions of different requests and      *)
(* handlers interleave freely.                                             *)
(***************************************************************************)
EXTENDS Naturals, Sequences, FiniteSets, TLC

\* ------------------------------------------------------------------ bounds

\* fetch events delivered during one run of the worker
MaxReq == 2
\* CLEAR_CACHE messages delivered during one run of the worker (the other
\* messages are not bounded)
MaxMsg == 1
\* stand-ins for LIMITS.dynamic (100) and LIMITS.images (50), scaled down
LimitDynamic == 2
LimitImages == 1
\* longest cache content and largest maxItems tried on limitCacheSize alone
MaxEvictLen == 4

\* ------------------------------------------------------------------ strings

StartsWith(s, prefix) ==
    /\ Len(prefix) <= Len(s)
    /\ SubSeq(s, 1, Len(prefix)) = prefix

\* ------------------------------------------------------------------ constants of the worker

CACHE_VERSION == <<"v2">>
STATIC_CACHE == <<"static", "-">> \o CACHE_VERSION
DYNAMIC_CACHE == <<"dynamic", "-">> \o CACHE_VERSION
IMAGE_CACHE == <<"images", "-">> \o CACHE_VERSION

LIMITS == [images |-> LimitImages, dynamic |-> LimitDynamic]

\* location.origin of the worker
LocationOrigin == "https://app.example"
OtherOrigin == "https://cdn.example"

\* ------------------------------------------------------------------ requests and responses

Url(origin, pathname) == [origin |-> origin, pathname |-> pathname]

Req(origin, pathname, destination) ==
    [url |-> Url(origin, pathname), destination |-> destination]

AppJs == Req(LocationOrigin, <<"/", "app.js">>, "script")
LogoPng == Req(LocationOrigin, <<"/", "logo.png">>, "image")
ApiData == Req(LocationOrigin, <<"/", "api", "/", "data">>, "")

\* the requests the pages issue in the strategy runs
Requests == {AppJs, LogoPng, ApiData}

\* every shape of request the dispatcher can see
Destinations == {"", "image", "script", "style", "font", "document"}
Pathnames ==
    { <<"/", "app.js">>, <<"/", "api">>, <<"/", "api", "/", "data">>,
      <<"/", "apix", "/", "data">> }
AllRequests ==
    { Req(o, p, d) : o \in {LocationOrigin, OtherOrigin}, p \in Pathnames,
                     d \in Destinations }

\* caches.match('/offline.html') resolves the path against the worker's origin
OfflineUrl == Url(LocationOrigin, <<"/", "offline.html">>)

\* a Response: where it comes from, its status, and the request that fetched it
\* (0: stored by an earlier run of the worker)
None == [kind |-> "none", status |-> 0, by |-> 0]
Stored == [kind |-> "net", status |-> 200, by |-> 0]
NetworkResponse(i, status) == [kind |-> "net", status |-> status, by |-> i]
\* new Response('Offline', { status: 503 })
Offline(i) == [kind |-> "synth", status |-> 503, by |-> i]

\* the statuses the network answers with
Statuses == {200, 404}

\* ------------------------------------------------------------------ CacheStorage

\* storage: the name-to-cache map in creation order, a sequence of
\* [name, entries]; entries: a sequence of [key, resp] in insertion order.

NoCache == << >>

Entry(key, resp) == [key |-> key, resp |-> resp]

Names(st) == [n \in 1..Len(st) |-> st[n].name]

Has(st, name) == \E n \in 1..Len(st) : st[n].name = name

Index(st, name) == CHOOSE n \in 1..Len(st) : st[n].name = name

Entries(st, name) == IF Has(st, name) THEN st[Index(st, name)].entries ELSE << >>

Keys(entries) == [n \in 1..Len(entries) |-> entries[n].key]

KeySet(entries) == { entries[n].key : n \in 1..Len(entries) }

Remove(entries, key) == SelectSeq(entries, LAMBDA e : e.key # key)

\* caches.open(name): the cache is created when it does not exist
Open(st, name) ==
    IF Has(st, name) THEN st ELSE Append(st, [name |-> name, entries |-> << >>])

\* cache.put(key, resp): an existing entry for the key is replaced, the new
\* entry is the last one
Put(st, name, key, resp) ==
    IF Has(st, name)
    THEN [st EXCEPT ![Index(st, name)].entries = Append(Remove(@, key), Entry(key, resp))]
    ELSE st

\* cache.delete(key)
DeleteKey(st, name, key) ==
    IF Has(st, name)
    THEN [st EXCEPT ![Index(st, name)].entries = Remove(@, key)]
    ELSE st

\* caches.delete(name)
DeleteCache(st, name) == SelectSeq(st, LAMBDA c : c.name # name)

\* cache.match(key) on one cache
MatchIn(entries, key) ==
    IF key \in KeySet(entries)
    THEN entries[CHOOSE n \in 1..Len(entries) : entries[n].key = key].resp
    ELSE None

\* caches.match(key): the first cache, in creation order, that holds the key
RECURSIVE MatchAll(_, _)
MatchAll(st, key) ==
    IF st = << >> THEN None
    ELSE IF MatchIn(Head(st).entries, key) # None
         THEN MatchIn(Head(st).entries, key)
         ELSE MatchAll(Tail(st), key)

\* ------------------------------------------------------------------ state

VARIABLES
    state,      \* ServiceWorker.state of this worker
    skipWaitingFlag,    \* self.skipWaiting() has been called
    storage,    \* the origin's CacheStorage
    initial,    \* the CacheStorage the run started with
    reqs,       \* the fetch events of this run and the strategy each one runs
    msgs,       \* the message events of this run and the clear-all each one runs
    life        \* the install and activate handlers' promise chains

vars == <<state, skipWaitingFlag, storage, initial, reqs, msgs, life>>

NoRequest == Req("", << >>, "")

\* one call of limitCacheSize
NoEvict == [pc |-> "none", maxItems |-> 0, keys |-> << >>, todo |-> {}, orphan |-> FALSE]

\* pc: where the strategy is suspended; lookup/cached: what caches.match(request)
\* gave; net/netResp: the outcome of fetch(request); result: the Response the
\* strategy's promise resolved with (None: not resolved yet); put: the
\* un-awaited cache.put; ev: the un-awaited limitCacheSize; afterClear: the
\* event was dispatched after a CLEAR_CACHE message; after: the earlier
\* events for the same request whose response had been returned when the
\* event was dispatched.
Idle ==
    [pc |-> "idle", request |-> NoRequest, strategy |-> "none", cacheName |-> NoCache,
     responded |-> FALSE, lookup |-> "none", cached |-> None, net |-> "none",
     netResp |-> None, result |-> None, put |-> "none", ev |-> NoEvict,
     afterClear |-> FALSE, after |-> {}]

\* type: event.data.type; pc: where the clear-all promise chain is; todo: its
\* caches.delete calls that have not settled; static: the keys the current
\* static cache held when the message was delivered
NoMessage == [type |-> "none", pc |-> "idle", todo |-> {}, static |-> {}]

\* install/activate: where the handler's promise chain is; todo: the
\* caches.delete calls of the activate handler that have not settled;
\* claimed: self.clients.claim() has been called; oldClients: the previous
\* worker still controls a client; before: the CacheStorage when the activate
\* event was dispatched; addAll/failed: how cache.addAll(STATIC_ASSETS)
\* settled and the assets whose fetch failed; skipMessage: a SKIP_WAITING
\* message has been delivered
NoLife ==
    [install |-> "idle", activate |-> "idle", todo |-> {},
     claimed |-> FALSE, oldClients |-> FALSE, before |-> << >>,
     addAll |-> "none", failed |-> {}, skipMessage |-> FALSE]

ReqIds == 1..MaxReq
MsgIds == 1..MaxMsg

\* a Cache handle outlives caches.delete(name): the deleted cache is no longer
\* reachable by name, and what is put into it or deleted from it is never seen
Orphan(rs, name) ==
    [i \in DOMAIN rs |->
        IF rs[i].cacheName # name THEN rs[i]
        ELSE [rs[i] EXCEPT !.put = IF @ = "inflight" THEN "orphan" ELSE @,
                           !.ev.orphan = IF rs[i].ev.pc \in {"keys", "del"} THEN TRUE ELSE @]]

\* ------------------------------------------------------------------ fetch event

\* the rule chain with the image rule tested before the /api/ rule
Route_ImageFirst(request) ==
    IF request.url.origin # LocationOrigin
    THEN [strategy |-> "none", cacheName |-> NoCache]
    ELSE IF request.destination = "image"
    THEN [strategy |-> "staleWhileRevalidate", cacheName |-> IMAGE_CACHE]
    ELSE IF StartsWith(request.url.pathname, <<"/", "api", "/">>)
    THEN [strategy |-> "networkFirst", cacheName |-> DYNAMIC_CACHE]
    ELSE IF request.destination \in {"script", "style", "font", "document"}
    THEN [strategy |-> "cacheFirst", cacheName |-> STATIC_CACHE]
    ELSE [strategy |-> "networkFirst", cacheName |-> DYNAMIC_CACHE]

\* the fetch listener's rule chain: the strategy and the cache of a request
Route(request) ==
    IF request.url.origin # LocationOrigin
    THEN [strategy |-> "none", cacheName |-> NoCache]
    ELSE IF StartsWith(request.url.pathname, <<"/", "api", "/">>)
    THEN [strategy |-> "networkFirst", cacheName |-> DYNAMIC_CACHE]
    ELSE IF request.destination = "image"
    THEN [strategy |-> "staleWhileRevalidate", cacheName |-> IMAGE_CACHE]
    ELSE IF request.destination \in {"script", "style", "font", "document"}
    THEN [strategy |-> "cacheFirst", cacheName |-> STATIC_CACHE]
    ELSE [strategy |-> "networkFirst", cacheName |-> DYNAMIC_CACHE]

ClearDelivered == \E m \in MsgIds : msgs[m].type = "CLEAR_CACHE"

\* the fetch listener run on one event: respondWith is called with the promise
\* of the routed strategy, whose code up to its first await runs at once
\* (networkFirst starts its fetch, the two others their caches.match)
FetchEvent(i, request) ==
    /\ state = "activated"
    /\ reqs[i].pc = "idle"
    /\ \A j \in ReqIds : j < i => reqs[j].pc # "idle"
    /\ LET route == Route(request)
           first == CASE route.strategy = "none" -> "passthrough"
                      [] route.strategy = "cacheFirst" -> "cf_match"
                      [] route.strategy = "networkFirst" -> "nf_fetch"
                      [] route.strategy = "staleWhileRevalidate" -> "sw_match"
       IN reqs' = [reqs EXCEPT ![i] =
                [Idle EXCEPT !.pc = first,
                             !.request = request,
                             !.strategy = route.strategy,
                             !.cacheName = route.cacheName,
                             !.responded = (route.strategy # "none"),
                             !.net = IF route.strategy = "networkFirst" THEN "pending" ELSE "none",
                             !.afterClear = ClearDelivered,
                             !.after = {j \in ReqIds : /\ reqs[j].request = request
                                                      /\ reqs[j].result # None}]]
    /\ UNCHANGED <<state, skipWaitingFlag, storage, initial, msgs, life>>

\* ------------------------------------------------------------------ cacheFirst

\* cacheFirst putting the response it found back into its cache
CacheFirstMatch_Touch(i) ==
    /\ reqs[i].pc = "cf_match"
    /\ LET cachedResponse == MatchAll(storage, reqs[i].request.url)
       IN IF cachedResponse # None
          THEN /\ reqs' = [reqs EXCEPT ![i].lookup = "hit",
                                       ![i].cached = cachedResponse,
                                       ![i].result = cachedResponse,
                                       ![i].pc = "done"]
               /\ storage' = Put(storage, reqs[i].cacheName, reqs[i].request.url,
                                 cachedResponse)
          ELSE /\ reqs' = [reqs EXCEPT ![i].lookup = "miss",
                                       ![i].pc = "cf_fetch",
                                       ![i].net = "pending"]
               /\ UNCHANGED storage
    /\ UNCHANGED <<state, skipWaitingFlag, initial, msgs, life>>

\* cacheFirst going to the network whatever the lookup gave
CacheFirstMatch_Refetch(i) ==
    /\ reqs[i].pc = "cf_match"
    /\ LET cachedResponse == MatchAll(storage, reqs[i].request.url)
       IN reqs' = [reqs EXCEPT ![i].lookup = IF cachedResponse # None THEN "hit" ELSE "miss",
                               ![i].cached = cachedResponse,
                               ![i].pc = "cf_fetch",
                               ![i].net = "pending"]
    /\ UNCHANGED <<state, skipWaitingFlag, storage, initial, msgs, life>>

\* const cachedResponse = await caches.match(request): a hit is returned, a
\* miss starts fetch(request)
CacheFirstMatch(i) ==
    /\ reqs[i].pc = "cf_match"
    /\ LET cachedResponse == MatchAll(storage, reqs[i].request.url)
       IN IF cachedResponse # None
          THEN reqs' = [reqs EXCEPT ![i].lookup = "hit",
                                    ![i].cached = cachedResponse,
                                    ![i].result = cachedResponse,
                                    ![i].pc = "done"]
          ELSE reqs' = [reqs EXCEPT ![i].lookup = "miss",
                                    ![i].pc = "cf_fetch",
                                    ![i].net = "pending"]
    /\ UNCHANGED <<state, skipWaitingFlag, storage, initial, msgs, life>>

\* const networkResponse = await fetch(request): a 200 goes on to caches.open,
\* any other status is returned as it is, a rejection enters the catch block
CacheFirstFetch(i) ==
    /\ reqs[i].pc = "cf_fetch"
    /\ \/ \E status \in Statuses :
            reqs' = [reqs EXCEPT ![i].net = "ok",
                                 ![i].netResp = NetworkResponse(i, status),
                                 ![i].result = IF status = 200 THEN None
                                               ELSE NetworkResponse(i, status),
                                 ![i].pc = IF status = 200 THEN "cf_open" ELSE "done"]
       \/ reqs' = [reqs EXCEPT ![i].net = "failed", ![i].pc = "cf_offline"]
    /\ UNCHANGED <<state, skipWaitingFlag, storage, initial, msgs, life>>

\* cacheFirst starting limitCacheSize(cacheName, LIMITS.dynamic) after its put
CacheFirstOpen_Limit(i) ==
    /\ reqs[i].pc = "cf_open"
    /\ \/ /\ storage' = Open(storage, reqs[i].cacheName)
          /\ reqs' = [reqs EXCEPT ![i].put = "inflight",
                                  ![i].ev = [NoEvict EXCEPT !.pc = "open",
                                                            !.maxItems = LIMITS.dynamic],
                                  ![i].result = reqs[i].netResp,
                                  ![i].pc = "done"]
       \/ /\ reqs' = [reqs EXCEPT ![i].pc = "cf_offline"]
          /\ UNCHANGED storage
    /\ UNCHANGED <<state, skipWaitingFlag, initial, msgs, life>>

\* const cache = await caches.open(cacheName); cache.put(...) is started and
\* not awaited; return networkResponse. A rejected open enters the catch block.
CacheFirstOpen(i) ==
    /\ reqs[i].pc = "cf_open"
    /\ \/ /\ storage' = Open(storage, reqs[i].cacheName)
          /\ reqs' = [reqs EXCEPT ![i].put = "inflight",
                                  ![i].result = reqs[i].netResp,
                                  ![i].pc = "done"]
       \/ /\ reqs' = [reqs EXCEPT ![i].pc = "cf_offline"]
          /\ UNCHANGED storage
    /\ UNCHANGED <<state, skipWaitingFlag, initial, msgs, life>>

\* the catch block returning the synthesized 503 without a cache lookup
CacheFirstOffline_NoLookup(i) ==
    /\ reqs[i].pc = "cf_offline"
    /\ reqs' = [reqs EXCEPT ![i].result = Offline(i), ![i].pc = "done"]
    /\ UNCHANGED <<state, skipWaitingFlag, storage, initial, msgs, life>>

\* catch: const offlineResponse = await caches.match('/offline.html'), returned
\* when there is one, else the synthesized 503
CacheFirstOffline(i) ==
    /\ reqs[i].pc = "cf_offline"
    /\ LET offlineResponse == MatchAll(storage, OfflineUrl)
       IN reqs' = [reqs EXCEPT ![i].result = IF offlineResponse # None
                                             THEN offlineResponse ELSE Offline(i),
                               ![i].pc = "done"]
    /\ UNCHANGED <<state, skipWaitingFlag, storage, initial, msgs, life>>

\* ------------------------------------------------------------------ networkFirst

\* const networkResponse = await fetch(request): a 200 goes on to caches.open,
\* any other status is returned as it is, a rejection enters the catch block
NetworkFirstFetch(i) ==
    /\ reqs[i].pc = "nf_fetch"
    /\ \/ \E status \in Statuses :
            reqs' = [reqs EXCEPT ![i].net = "ok",
                                 ![i].netResp = NetworkResponse(i, status),
                                 ![i].result = IF status = 200 THEN None
                                               ELSE NetworkResponse(i, status),
                                 ![i].pc = IF status = 200 THEN "nf_open" ELSE "done"]
       \/ reqs' = [reqs EXCEPT ![i].net = "failed", ![i].pc = "nf_match"]
    /\ UNCHANGED <<state, skipWaitingFlag, storage, initial, msgs, life>>

\* const cache = await caches.open(cacheName); cache.put(...) and
\* limitCacheSize(cacheName, LIMITS.dynamic) are started and not awaited;
\* return networkResponse. A rejected open enters the catch block.
NetworkFirstOpen(i) ==
    /\ reqs[i].pc = "nf_open"
    /\ \/ /\ storage' = Open(storage, reqs[i].cacheName)
          /\ reqs' = [reqs EXCEPT ![i].put = "inflight",
                                  ![i].ev = [NoEvict EXCEPT !.pc = "open",
                                                            !.maxItems = LIMITS.dynamic],
                                  ![i].result = reqs[i].netResp,
                                  ![i].pc = "done"]
       \/ /\ reqs' = [reqs EXCEPT ![i].pc = "nf_match"]
          /\ UNCHANGED storage
    /\ UNCHANGED <<state, skipWaitingFlag, initial, msgs, life>>

\* catch: const cachedResponse = await caches.match(request), returned when
\* there is one, else the synthesized 503
NetworkFirstMatch(i) ==
    /\ reqs[i].pc = "nf_match"
    /\ LET cachedResponse == MatchAll(storage, reqs[i].request.url)
       IN reqs' = [reqs EXCEPT ![i].lookup = IF cachedResponse # None THEN "hit" ELSE "miss",
                               ![i].cached = cachedResponse,
                               ![i].result = IF cachedResponse # None
                                             THEN cachedResponse ELSE Offline(i),
                               ![i].pc = "done"]
    /\ UNCHANGED <<state, skipWaitingFlag, storage, initial, msgs, life>>

\* ------------------------------------------------------------------ staleWhileRevalidate

\* return cachedResponse || fetchPromise, once fetchPromise has settled with
\* the response r: the caller that got no cached response gets r
Settle(req, r) == IF req.result = None THEN r ELSE req.result

\* staleWhileRevalidate returning fetchPromise whatever the lookup gave
SwrMatch_AwaitNetwork(i) ==
    /\ reqs[i].pc = "sw_match"
    /\ LET cachedResponse == MatchAll(storage, reqs[i].request.url)
       IN reqs' = [reqs EXCEPT ![i].lookup = IF cachedResponse # None THEN "hit" ELSE "miss",
                               ![i].cached = cachedResponse,
                               ![i].net = "pending",
                               ![i].pc = "sw_fetch"]
    /\ UNCHANGED <<state, skipWaitingFlag, storage, initial, msgs, life>>

\* const cachedResponse = await caches.match(request); fetch(request) is
\* started; return cachedResponse || fetchPromise
SwrMatch(i) ==
    /\ reqs[i].pc = "sw_match"
    /\ LET cachedResponse == MatchAll(storage, reqs[i].request.url)
       IN reqs' = [reqs EXCEPT ![i].lookup = IF cachedResponse # None THEN "hit" ELSE "miss",
                               ![i].cached = cachedResponse,
                               ![i].result = cachedResponse,
                               ![i].net = "pending",
                               ![i].pc = "sw_fetch"]
    /\ UNCHANGED <<state, skipWaitingFlag, storage, initial, msgs, life>>

\* fetch(request).then(...).catch(...): a 200 goes on to caches.open, any other
\* status settles fetchPromise with the network response, a rejection settles
\* it with the synthesized 503
SwrFetch(i) ==
    /\ reqs[i].pc = "sw_fetch"
    /\ \/ \E status \in Statuses :
            reqs' = [reqs EXCEPT ![i].net = "ok",
                                 ![i].netResp = NetworkResponse(i, status),
                                 ![i].result = IF status = 200 THEN @
                                               ELSE Settle(reqs[i], NetworkResponse(i, status)),
                                 ![i].pc = IF status = 200 THEN "sw_open" ELSE "done"]
       \/ reqs' = [reqs EXCEPT ![i].net = "failed",
                               ![i].result = Settle(reqs[i], Offline(i)),
                               ![i].pc = "done"]
    /\ UNCHANGED <<state, skipWaitingFlag, storage, initial, msgs, life>>

\* const cache = await caches.open(cacheName); cache.put(...) and
\* limitCacheSize(cacheName, LIMITS.images) are started and not awaited;
\* fetchPromise settles with networkResponse. A rejected open is caught by
\* .catch and settles fetchPromise with the synthesized 503.
SwrOpen(i) ==
    /\ reqs[i].pc = "sw_open"
    /\ \/ /\ storage' = Open(storage, reqs[i].cacheName)
          /\ reqs' = [reqs EXCEPT ![i].put = "inflight",
                                  ![i].ev = [NoEvict EXCEPT !.pc = "open",
                                                            !.maxItems = LIMITS.images],
                                  ![i].result = Settle(reqs[i], reqs[i].netResp),
                                  ![i].pc = "done"]
       \/ /\ reqs' = [reqs EXCEPT ![i].result = Settle(reqs[i], Offline(i)),
                                  ![i].pc = "done"]
          /\ UNCHANGED storage
    /\ UNCHANGED <<state, skipWaitingFlag, initial, msgs, life>>

\* ------------------------------------------------------------------ cache.put

\* the un-awaited cache.put(request, networkResponse.clone()) settles: the
\* entry is stored (in a cache deleted since the open, unseen), or the put
\* rejects and nothing is stored
PutSettle(i) ==
    /\ reqs[i].put \in {"inflight", "orphan"}
    /\ \/ /\ storage' = IF reqs[i].put = "inflight"
                         THEN Put(storage, reqs[i].cacheName, reqs[i].request.url,
                                  reqs[i].netResp)
                         ELSE storage
          /\ reqs' = [reqs EXCEPT ![i].put = IF @ = "inflight" THEN "stored" ELSE "lost"]
       \/ /\ reqs' = [reqs EXCEPT ![i].put = "rejected"]
          /\ UNCHANGED storage
    /\ UNCHANGED <<state, skipWaitingFlag, initial, msgs, life>>

\* ------------------------------------------------------------------ limitCacheSize

\* the slice taken from the newest end
ToDelete_Newest(keys, maxItems) ==
    IF Len(keys) > maxItems THEN SubSeq(keys, maxItems + 1, Len(keys)) ELSE << >>

\* keys.slice(0, keys.length - maxItems) when keys.length > maxItems
ToDelete(keys, maxItems) ==
    IF Len(keys) > maxItems THEN SubSeq(keys, 1, Len(keys) - maxItems) ELSE << >>

Range(seq) == { seq[n] : n \in 1..Len(seq) }

\* const cache = await caches.open(cacheName); a rejected open ends the pass
LimitOpen(i) ==
    /\ reqs[i].ev.pc = "open"
    /\ \/ /\ storage' = Open(storage, reqs[i].cacheName)
          /\ reqs' = [reqs EXCEPT ![i].ev.pc = "keys"]
       \/ /\ reqs' = [reqs EXCEPT ![i].ev.pc = "rejected"]
          /\ UNCHANGED storage
    /\ UNCHANGED <<state, skipWaitingFlag, initial, msgs, life>>

\* const keys = await cache.keys(); the deletes of toDelete are all started
LimitKeys(i) ==
    /\ reqs[i].ev.pc = "keys"
    /\ LET keys == IF reqs[i].ev.orphan THEN << >>
                   ELSE Keys(Entries(storage, reqs[i].cacheName))
           toDelete == ToDelete(keys, reqs[i].ev.maxItems)
       IN reqs' = [reqs EXCEPT ![i].ev.keys = keys,
                               ![i].ev.todo = Range(toDelete),
                               ![i].ev.pc = IF toDelete = << >> THEN "done" ELSE "del"]
    /\ UNCHANGED <<state, skipWaitingFlag, storage, initial, msgs, life>>

\* one cache.delete(key) of the Promise.all settles; the pass is over with the
\* last one
LimitDelete(i) ==
    /\ reqs[i].ev.pc = "del"
    /\ \E key \in reqs[i].ev.todo :
        /\ storage' = IF reqs[i].ev.orphan THEN storage
                      ELSE DeleteKey(storage, reqs[i].cacheName, key)
        /\ reqs' = [reqs EXCEPT ![i].ev.todo = @ \ {key},
                                ![i].ev.pc = IF reqs[i].ev.todo = {key} THEN "done" ELSE "del"]
    /\ UNCHANGED <<state, skipWaitingFlag, initial, msgs, life>>

\* ------------------------------------------------------------------ message event

MessageTypes == {"SKIP_WAITING", "CLEAR_CACHE", "PING"}

\* the message listener run on one event: SKIP_WAITING calls
\* self.skipWaiting(), CLEAR_CACHE starts caches.keys() inside
\* event.waitUntil, anything else is ignored. Only a CLEAR_CACHE leaves a
\* promise chain behind, msgs[m].
Message(m, type) ==
    /\ msgs[m].type = "none"
    /\ \A k \in MsgIds : k < m => msgs[k].type # "none"
    /\ msgs' = IF type = "CLEAR_CACHE"
               THEN [msgs EXCEPT ![m] =
                        [NoMessage EXCEPT !.type = type,
                                          !.pc = "keys",
                                          !.static = KeySet(Entries(storage, STATIC_CACHE))]]
               ELSE msgs
    /\ skipWaitingFlag' = (skipWaitingFlag \/ type = "SKIP_WAITING")
    /\ life' = [life EXCEPT !.skipMessage = @ \/ type = "SKIP_WAITING"]
    /\ UNCHANGED <<state, storage, initial, reqs>>

\* the names the clear-all deletes: cacheNames.map(...) has no filter
ClearNames(cacheNames) == Range(cacheNames)

\* caches.keys().then(cacheNames => ...): a caches.delete is started for
\* every name
ClearKeys(m) ==
    /\ msgs[m].pc = "keys"
    /\ LET names == ClearNames(Names(storage))
       IN msgs' = [msgs EXCEPT ![m].todo = names,
                               ![m].pc = IF names = {} THEN "done" ELSE "del"]
    /\ UNCHANGED <<state, skipWaitingFlag, storage, initial, reqs, life>>

\* one caches.delete(cacheName) of the Promise.all settles; the clear-all is
\* over with the last one
ClearDelete(m) ==
    /\ msgs[m].pc = "del"
    /\ \E name \in msgs[m].todo :
        /\ storage' = DeleteCache(storage, name)
        /\ reqs' = Orphan(reqs, name)
        /\ msgs' = [msgs EXCEPT ![m].todo = @ \ {name},
                                ![m].pc = IF msgs[m].todo = {name} THEN "done" ELSE "del"]
    /\ UNCHANGED <<state, skipWaitingFlag, initial, life>>

\* ------------------------------------------------------------------ install event

STATIC_ASSETS ==
    << Url(LocationOrigin, <<"/">>),
       Url(LocationOrigin, <<"/", "index.html">>),
       Url(LocationOrigin, <<"/", "manifest.json">>),
       Url(LocationOrigin, <<"/", "favicon.png">>) >>

RECURSIVE PutAll(_, _, _)
PutAll(st, name, urls) ==
    IF urls = << >> THEN st
    ELSE PutAll(Put(st, name, Head(urls), Stored), name, Tail(urls))

\* the install listener without its call of self.skipWaiting()
InstallEvent_NoSkipWaiting ==
    /\ state = "installing"
    /\ life.install = "idle"
    /\ life' = [life EXCEPT !.install = "open"]
    /\ UNCHANGED <<state, skipWaitingFlag, storage, initial, reqs, msgs>>

\* the install listener: caches.open(STATIC_CACHE) is started inside
\* event.waitUntil, then self.skipWaiting() is called
InstallEvent ==
    /\ state = "installing"
    /\ life.install = "idle"
    /\ life' = [life EXCEPT !.install = "open"]
    /\ skipWaitingFlag' = TRUE
    /\ UNCHANGED <<state, storage, initial, reqs, msgs>>

\* caches.open(STATIC_CACHE) settles: .then starts cache.addAll(STATIC_ASSETS),
\* a rejection is swallowed by .catch
InstallOpen ==
    /\ life.install = "open"
    /\ \/ /\ storage' = Open(storage, STATIC_CACHE)
          /\ life' = [life EXCEPT !.install = "addAll"]
       \/ /\ life' = [life EXCEPT !.install = "done"]
          /\ UNCHANGED storage
    /\ UNCHANGED <<state, skipWaitingFlag, initial, reqs, msgs>>

\* cache.addAll(STATIC_ASSETS) settles: with every asset fetched the entries
\* are stored together; with the fetch of any asset failed it rejects, nothing
\* is stored, and .catch swallows the rejection
InstallAddAll ==
    /\ life.install = "addAll"
    /\ \E failed \in SUBSET Range(STATIC_ASSETS) :
        /\ storage' = IF failed = {}
                      THEN PutAll(storage, STATIC_CACHE, STATIC_ASSETS)
                      ELSE storage
        /\ life' = [life EXCEPT !.install = "done",
                                !.addAll = IF failed = {} THEN "fulfilled" ELSE "rejected",
                                !.failed = failed]
    /\ UNCHANGED <<state, skipWaitingFlag, initial, reqs, msgs>>

\* the promise given to event.waitUntil has settled: the worker is installed
Installed ==
    /\ state = "installing"
    /\ life.install = "done"
    /\ state' = "installed"
    /\ UNCHANGED <<skipWaitingFlag, storage, initial, reqs, msgs, life>>

\* the last client of the previous worker goes away
ClientsGone ==
    /\ life.oldClients
    /\ life' = [life EXCEPT !.oldClients = FALSE]
    /\ UNCHANGED <<state, skipWaitingFlag, storage, initial, reqs, msgs>>

\* ------------------------------------------------------------------ activate event

\* the second filter without the first
StaleNames_AnyOther(cacheNames) ==
    { name \in Range(cacheNames) :
        /\ name # STATIC_CACHE
        /\ name # DYNAMIC_CACHE
        /\ name # IMAGE_CACHE }

\* the two filters of the activate listener: the names with a role prefix that
\* are not one of the three current names
StaleNames(cacheNames) ==
    { name \in Range(cacheNames) :
        /\ \/ StartsWith(name, <<"static", "-">>)
           \/ StartsWith(name, <<"dynamic", "-">>)
           \/ StartsWith(name, <<"images", "-">>)
        /\ name # STATIC_CACHE
        /\ name # DYNAMIC_CACHE
        /\ name # IMAGE_CACHE }

\* the waiting worker is activated once skipWaiting() has been called or the
\* previous worker controls no client; the activate listener starts
\* caches.keys() inside event.waitUntil
ActivateEvent ==
    /\ state = "installed"
    /\ skipWaitingFlag \/ ~life.oldClients
    /\ state' = "activating"
    /\ life' = [life EXCEPT !.activate = "keys", !.before = storage]
    /\ UNCHANGED <<skipWaitingFlag, storage, initial, reqs, msgs>>

\* caches.keys().then(cacheNames => ...): a caches.delete is started for every
\* stale name; with none, Promise.all([]) is fulfilled
ActivateKeys ==
    /\ life.activate = "keys"
    /\ LET stale == StaleNames(Names(storage))
       IN life' = [life EXCEPT !.todo = stale,
                               !.activate = IF stale = {} THEN "claim" ELSE "del"]
    /\ UNCHANGED <<state, skipWaitingFlag, storage, initial, reqs, msgs>>

\* one caches.delete(cacheName) of the Promise.all settles: the cache is
\* deleted, or the delete rejects and with it the Promise.all and the chain
\* given to waitUntil (.then is skipped), the other deletes going on
ActivateDelete ==
    /\ life.todo # {}
    /\ \E name \in life.todo :
        \/ /\ storage' = DeleteCache(storage, name)
           /\ reqs' = Orphan(reqs, name)
           /\ life' = [life EXCEPT !.todo = @ \ {name},
                                   !.activate = IF @ = "del" /\ life.todo = {name}
                                                THEN "claim" ELSE @]
        \/ /\ life' = [life EXCEPT !.todo = @ \ {name}, !.activate = "rejected"]
           /\ UNCHANGED <<storage, reqs>>
    /\ UNCHANGED <<state, skipWaitingFlag, initial, msgs>>

\* .then(() => self.clients.claim())
ActivateClaim ==
    /\ life.activate = "claim"
    /\ life' = [life EXCEPT !.claimed = TRUE, !.activate = "done"]
    /\ UNCHANGED <<state, skipWaitingFlag, storage, initial, reqs, msgs>>

\* the promise given to event.waitUntil has settled, fulfilled or rejected: the
\* worker is activated
Activated ==
    /\ state = "activating"
    /\ life.activate \in {"done", "rejected"}
    /\ state' = "activated"
    /\ UNCHANGED <<skipWaitingFlag, storage, initial, reqs, msgs, life>>

\* ------------------------------------------------------------------ runs

FooUrl == Url(LocationOrigin, <<"/", "foo">>)
ApiUser == Url(LocationOrigin, <<"/", "api", "/", "user">>)
ApiList == Url(LocationOrigin, <<"/", "api", "/", "list">>)

Cache(name, urls) ==
    [name |-> name, entries |-> [n \in 1..Len(urls) |-> Entry(urls[n], Stored)]]

UNRELATED == <<"unrelated", "-", "foo">>

\* what earlier runs of this version left in the CacheStorage
Persisted ==
    { << >>,
      << Cache(STATIC_CACHE, << >>) >>,
      << Cache(STATIC_CACHE, <<AppJs.url, OfflineUrl>>),
         Cache(UNRELATED, <<FooUrl>>),
         Cache(DYNAMIC_CACHE, <<ApiUser, ApiList>>),
         Cache(IMAGE_CACHE, <<LogoPng.url>>) >> }

\* the worker is started again, already activated, for an event
Init ==
    /\ state = "activated"
    /\ skipWaitingFlag = FALSE
    /\ storage \in Persisted
    /\ initial = storage
    /\ reqs = [i \in ReqIds |-> Idle]
    /\ msgs = [m \in MsgIds |-> NoMessage]
    /\ life = NoLife

Strategy(i) ==
    \/ CacheFirstMatch(i)
    \/ CacheFirstFetch(i)
    \/ CacheFirstOpen(i)
    \/ CacheFirstOffline(i)
    \/ NetworkFirstFetch(i)
    \/ NetworkFirstOpen(i)
    \/ NetworkFirstMatch(i)
    \/ SwrMatch(i)
    \/ SwrFetch(i)
    \/ SwrOpen(i)
    \/ PutSettle(i)
    \/ LimitOpen(i)
    \/ LimitKeys(i)
    \/ LimitDelete(i)

\* the activated worker: fetch events, the strategies they run, message events
Next ==
    \/ \E i \in ReqIds, request \in Requests : FetchEvent(i, request)
    \/ \E i \in ReqIds : Strategy(i)
    \/ \E m \in MsgIds, type \in MessageTypes : Message(m, type)
    \/ \E m \in MsgIds : ClearKeys(m)
    \/ \E m \in MsgIds : ClearDelete(m)

Spec == Init /\ [][Next]_vars

\* the activated worker with no message event
NextFetch ==
    \/ \E i \in ReqIds, request \in Requests : FetchEvent(i, request)
    \/ \E i \in ReqIds : Strategy(i)

SpecFetch == Init /\ [][NextFetch]_vars

\* what the install handler and earlier fetch events of this version can have
\* left: the precached STATIC_ASSETS with /offline.html (a document, stored by
\* cacheFirst) and /favicon.png again in the images cache (requested as an
\* image, stored by staleWhileRevalidate); or /app.js in the dynamic cache
\* alone (requested with an empty destination, stored by networkFirst)
Precached ==
    { << Cache(STATIC_CACHE, STATIC_ASSETS \o <<OfflineUrl>>),
         Cache(IMAGE_CACHE, <<STATIC_ASSETS[4]>>) >>,
      << Cache(DYNAMIC_CACHE, <<AppJs.url>>) >> }

InitPrecached ==
    /\ state = "activated"
    /\ skipWaitingFlag = FALSE
    /\ storage \in Precached
    /\ initial = storage
    /\ reqs = [i \in ReqIds |-> Idle]
    /\ msgs = [m \in MsgIds |-> NoMessage]
    /\ life = NoLife

\* the fetch events of a worker started on a precached CacheStorage
SpecPrecached == InitPrecached /\ [][NextFetch]_vars

\* the fetch listener alone, on every shape of request
InitDispatch ==
    /\ Init
    /\ storage = << >>

NextDispatch == \E i \in ReqIds, request \in AllRequests : FetchEvent(i, request)

SpecDispatch == InitDispatch /\ [][NextDispatch]_vars

\* limitCacheSize alone: one call, on every content of the cache and every
\* maxItems, nothing else running
EvictKeys == {AppJs.url, LogoPng.url, ApiData.url, OfflineUrl}

EvictContents ==
    { urls \in UNION { [1..n -> EvictKeys] : n \in 0..MaxEvictLen } :
        \A a, b \in 1..Len(urls) : a # b => urls[a] # urls[b] }

InitEvict ==
    /\ state = "activated"
    /\ skipWaitingFlag = FALSE
    /\ \E urls \in EvictContents : storage = << Cache(IMAGE_CACHE, urls) >>
    /\ initial = storage
    /\ \E maxItems \in 0..MaxEvictLen :
        reqs = [i \in ReqIds |->
                  IF i = 1
                  THEN [Idle EXCEPT !.pc = "done", !.cacheName = IMAGE_CACHE,
                                    !.ev = [NoEvict EXCEPT !.pc = "open",
                                                           !.maxItems = maxItems]]
                  ELSE Idle]
    /\ msgs = [m \in MsgIds |-> NoMessage]
    /\ life = NoLife

NextEvict == LimitOpen(1) \/ LimitKeys(1) \/ LimitDelete(1)

SpecEvict == InitEvict /\ [][NextEvict]_vars

\* a new version of the worker is installed and activated over what the
\* previous versions left in the CacheStorage, no clear-all being asked for
\* meanwhile
RECURSIVE SubSeqs(_)
SubSeqs(seq) ==
    IF seq = << >> THEN { << >> }
    ELSE LET rest == SubSeqs(Tail(seq))
         IN rest \cup { <<Head(seq)>> \o r : r \in rest }

Leftovers ==
    << Cache(<<"static", "-", "v1">>, <<AppJs.url>>),
       Cache(<<"dynamic", "-", "v1">>, <<ApiUser>>),
       Cache(<<"images", "-", "v1">>, <<LogoPng.url>>),
       Cache(UNRELATED, <<FooUrl>>),
       Cache(DYNAMIC_CACHE, <<ApiList>>) >>

InitLifecycle ==
    /\ state = "installing"
    /\ skipWaitingFlag = FALSE
    /\ storage \in SubSeqs(Leftovers)
    /\ initial = storage
    /\ reqs = [i \in ReqIds |-> Idle]
    /\ msgs = [m \in MsgIds |-> NoMessage]
    /\ \E c \in BOOLEAN : life = [NoLife EXCEPT !.oldClients = c]

NextLifecycle ==
    \/ InstallEvent
    \/ InstallOpen
    \/ InstallAddAll
    \/ Installed
    \/ ClientsGone
    \/ ActivateEvent
    \/ ActivateKeys
    \/ ActivateDelete
    \/ ActivateClaim
    \/ Activated
    \/ \E m \in MsgIds, type \in MessageTypes \ {"CLEAR_CACHE"} : Message(m, type)

SpecLifecycle == InitLifecycle /\ [][NextLifecycle]_vars

\* ------------------------------------------------------------------ properties

SameOrigin(request) == request.url.origin = LocationOrigin

\* the path is under /api/
UnderApi(request) ==
    LET p == request.url.pathname
    IN Len(p) >= 3 /\ p[1] = "/" /\ p[2] = "api" /\ p[3] = "/"

Runs(i, strategy, cacheName, pc) ==
    /\ reqs[i].strategy = strategy
    /\ reqs[i].cacheName = cacheName
    /\ reqs[i].responded
    /\ reqs[i].pc = pc

\* C1: the fetch listener picks the strategy and the cache of every request by
\* the first matching rule: cross-origin, not intercepted (no respondWith);
\* path under /api/, networkFirst on the dynamic cache; destination image,
\* staleWhileRevalidate on the images cache; destination script, style, font
\* or document, cacheFirst on the static cache; anything else, networkFirst on
\* the dynamic cache. One strategy, and only one, is started per same-origin
\* request. (Checked on the state each fetch event leaves, before any
\* strategy step.)
C1_FirstMatchingRule ==
    \A i \in ReqIds :
        reqs[i].pc # "idle" =>
            LET r == reqs[i].request
            IN /\ ~SameOrigin(r) =>
                    /\ ~reqs[i].responded
                    /\ reqs[i].strategy = "none"
                    /\ reqs[i].pc = "passthrough"
                    /\ reqs[i].net = "none"
               /\ SameOrigin(r) /\ UnderApi(r) =>
                    Runs(i, "networkFirst", DYNAMIC_CACHE, "nf_fetch")
               /\ SameOrigin(r) /\ ~UnderApi(r) /\ r.destination = "image" =>
                    Runs(i, "staleWhileRevalidate", IMAGE_CACHE, "sw_match")
               /\ SameOrigin(r) /\ ~UnderApi(r)
                    /\ r.destination \in {"script", "style", "font", "document"} =>
                    Runs(i, "cacheFirst", STATIC_CACHE, "cf_match")
               /\ SameOrigin(r) /\ ~UnderApi(r) /\ r.destination = "" =>
                    Runs(i, "networkFirst", DYNAMIC_CACHE, "nf_fetch")

\* a same-origin image under /api/ and a same-origin script under /api/ have
\* both been dispatched
C1_Witness ==
    /\ \E i \in ReqIds :
        /\ SameOrigin(reqs[i].request) /\ UnderApi(reqs[i].request)
        /\ reqs[i].request.destination = "image"
        /\ Runs(i, "networkFirst", DYNAMIC_CACHE, "nf_fetch")
    /\ \E i \in ReqIds :
        /\ SameOrigin(reqs[i].request) /\ UnderApi(reqs[i].request)
        /\ reqs[i].request.destination = "script"
        /\ Runs(i, "networkFirst", DYNAMIC_CACHE, "nf_fetch")

\* C2: a cacheFirst call whose cache lookup is a hit returns the cached
\* response, never starts a network fetch and writes no cache (no put, no
\* eviction pass).
C2_HitShortCircuits ==
    \A i \in ReqIds :
        reqs[i].strategy = "cacheFirst" /\ reqs[i].lookup = "hit" =>
            /\ reqs[i].cached # None
            /\ reqs[i].result = reqs[i].cached
            /\ reqs[i].pc = "done"
            /\ reqs[i].net = "none"
            /\ reqs[i].netResp = None
            /\ reqs[i].put = "none"
            /\ reqs[i].ev.pc = "none"

\* a cacheFirst call has hit the cache
C2_Witness ==
    \E i \in ReqIds :
        /\ reqs[i].strategy = "cacheFirst"
        /\ reqs[i].lookup = "hit"
        /\ reqs[i].result = Stored

\* every started cache.put has settled and every started limitCacheSize has
\* run to its end
WritesSettled ==
    \A i \in ReqIds :
        /\ reqs[i].put \in {"none", "stored", "lost", "rejected"}
        /\ reqs[i].ev.pc \in {"none", "done"}

Count(name) == Len(Entries(storage, name))

\* C3: whenever the writes and the eviction passes that the successful
\* networkFirst and staleWhileRevalidate fetches started have all settled, the
\* dynamic cache holds at most LIMITS.dynamic entries and the images cache at
\* most LIMITS.images.
C3_WithinLimitsWhenSettled ==
    WritesSettled =>
        /\ Count(DYNAMIC_CACHE) <= LIMITS.dynamic
        /\ Count(IMAGE_CACHE) <= LIMITS.images

LastN(seq, n) == IF Len(seq) > n THEN SubSeq(seq, Len(seq) - n + 1, Len(seq)) ELSE seq

\* C4: limitCacheSize(cache, maxItems), run to its end with no write beside
\* it, leaves exactly the maxItems latest-inserted keys when the cache held
\* more than maxItems (it deleted the count - maxItems earliest-inserted ones),
\* and leaves the cache as it was when it held maxItems or fewer.
C4_EvictionIsFifo ==
    reqs[1].ev.pc = "done" =>
        LET before == Keys(Entries(initial, IMAGE_CACHE))
            after == Keys(Entries(storage, IMAGE_CACHE))
        IN /\ after = LastN(before, reqs[1].ev.maxItems)
           /\ Len(before) <= reqs[1].ev.maxItems => storage = initial

\* A, B, C, D with the limit 2: the pass is over and has left C, D
C4_Witness ==
    /\ reqs[1].ev.pc = "done"
    /\ reqs[1].ev.maxItems = 2
    /\ Len(Entries(initial, IMAGE_CACHE)) = 4
    /\ Keys(Entries(storage, IMAGE_CACHE))
         = SubSeq(Keys(Entries(initial, IMAGE_CACHE)), 3, 4)

\* C5: a staleWhileRevalidate call that finds a cached response returns it
\* from the lookup on, whatever the network fetch does and even while it is
\* still pending; the call writes the cache (put or eviction) only once its
\* fetch has resolved with status 200; and what the caller got is never the
\* response this call fetched or synthesized.
C5_StaleReturnedAtOnce ==
    \A i \in ReqIds :
        reqs[i].strategy = "staleWhileRevalidate" /\ reqs[i].lookup = "hit" =>
            /\ reqs[i].cached # None
            /\ reqs[i].result = reqs[i].cached
            /\ reqs[i].result.by # i
            /\ reqs[i].result.kind # "synth"
            /\ (reqs[i].put # "none" \/ reqs[i].ev.pc # "none") =>
                    /\ reqs[i].net = "ok"
                    /\ reqs[i].netResp.status = 200

\* one caller has the cached response while its fetch is still pending; for
\* another the fetch has resolved with 200 and overwritten the cache entry,
\* and the caller keeps the stale response it got
C5_Witness ==
    /\ \E i \in ReqIds :
        /\ reqs[i].strategy = "staleWhileRevalidate"
        /\ reqs[i].lookup = "hit"
        /\ reqs[i].net = "pending"
        /\ reqs[i].result = reqs[i].cached
        /\ reqs[i].result # None
    /\ \E j \in ReqIds :
        /\ reqs[j].strategy = "staleWhileRevalidate"
        /\ reqs[j].lookup = "hit"
        /\ reqs[j].put = "stored"
        /\ reqs[j].result = Stored
        /\ MatchAll(storage, reqs[j].request.url) = NetworkResponse(j, 200)

\* the name has one of the role prefixes static-, dynamic-, images-
RoleName(name) ==
    /\ Len(name) >= 2
    /\ name[1] \in {"static", "dynamic", "images"}
    /\ name[2] = "-"

CurrentName(name) == name \in {STATIC_CACHE, DYNAMIC_CACHE, IMAGE_CACHE}

\* C6: when the activate handler has completed (its chain is fulfilled), no
\* cache with a role prefix and a name other than the three current ones is
\* left, and the caches that existed when the activate event was dispatched
\* and are current or have no role prefix are all there, in the same order,
\* with the same content.
C6_PurgesExactlyStale ==
    life.activate = "done" =>
        /\ \A n \in 1..Len(storage) :
                RoleName(storage[n].name) => CurrentName(storage[n].name)
        /\ storage = SelectSeq(life.before,
                               LAMBDA c : ~RoleName(c.name) \/ CurrentName(c.name))

\* static-v1, dynamic-v1, images-v1 and unrelated-foo existed beside current
\* caches when version v2 was activated; the handler has completed, the three
\* are gone, unrelated-foo and the current caches are there
C6_Witness ==
    /\ life.activate = "done"
    /\ Has(life.before, <<"static", "-", "v1">>)
    /\ Has(life.before, <<"dynamic", "-", "v1">>)
    /\ Has(life.before, <<"images", "-", "v1">>)
    /\ Has(life.before, UNRELATED)
    /\ ~Has(storage, <<"static", "-", "v1">>)
    /\ Entries(storage, UNRELATED) = <<Entry(FooUrl, Stored)>>
    /\ Entries(storage, DYNAMIC_CACHE) = <<Entry(ApiList, Stored)>>
    /\ Len(Entries(storage, STATIC_CACHE)) = Len(STATIC_ASSETS)

\* C7: once the clear-all of a CLEAR_CACHE message has completed, every cache
\* that existed at the start of the run and has none of the role prefixes
\* still exists.
C7_ClearKeepsUnrelated ==
    (\E m \in MsgIds : msgs[m].type = "CLEAR_CACHE" /\ msgs[m].pc = "done") =>
        \A n \in 1..Len(initial) :
            ~RoleName(initial[n].name) => Has(storage, initial[n].name)

\* C8: a request for a static asset that the static cache held when a
\* CLEAR_CACHE message was delivered, dispatched after that message, misses
\* the cache in cacheFirst.
C8_MissAfterClear ==
    \A i \in ReqIds :
        /\ reqs[i].strategy = "cacheFirst"
        /\ reqs[i].afterClear
        /\ \E m \in MsgIds : reqs[i].request.url \in msgs[m].static
        /\ reqs[i].lookup # "none"
        => reqs[i].lookup = "miss"

\* C9: a strategy returns the synthesized 503 only when its network fetch
\* failed and its cache lookup found nothing.
C9_OfflineOnlyWhenBothFail ==
    \A i \in ReqIds :
        reqs[i].result.kind = "synth" =>
            /\ reqs[i].net = "failed"
            /\ reqs[i].cached = None

\* C10: a caller whose network fetch succeeded with status 200 gets that
\* network response, whether opening the cache or putting the entry fails or
\* not (the staleWhileRevalidate caller that was served from the cache aside).
C10_WriteFailureNeverFailsRequest ==
    \A i \in ReqIds :
        /\ reqs[i].net = "ok"
        /\ reqs[i].netResp.status = 200
        /\ reqs[i].pc = "done"
        /\ ~(reqs[i].strategy = "staleWhileRevalidate" /\ reqs[i].lookup = "hit")
        => reqs[i].result = reqs[i].netResp

\* C11: when the install handler has completed after cache.addAll ran with the
\* fetch of some, but not all, of the STATIC_ASSETS failed, every other asset
\* of the manifest is in the static cache. (The chain given to waitUntil ends
\* in .catch and never rejects, so the second half of the claim, that
\* installation fails only when open or addAll throws, has no case.)
C11_PartialFailureKeepsOthers ==
    /\ life.install = "done"
    /\ life.addAll # "none"
    /\ life.failed # {}
    /\ life.failed # Range(STATIC_ASSETS)
    => \A url \in Range(STATIC_ASSETS) \ life.failed :
            url \in KeySet(Entries(storage, STATIC_CACHE))

\* the worker's state goes installing, installed, activating, activated
InOrder ==
    state' # state =>
        <<state, state'>> \in { <<"installing", "installed">>,
                                <<"installed", "activating">>,
                                <<"activating", "activated">> }

LeavesWaiting == state = "installed" /\ state' = "activating"

\* C12 as stated: the states follow in order, and the worker leaves the waiting
\* state only when the previous worker controls no client or a SKIP_WAITING
\* message has been delivered.
C12_WaitsForMessageOrClients ==
    [][ /\ InOrder
        /\ LeavesWaiting => (~life.oldClients \/ life.skipMessage) ]_vars

\* C12 as amended: the states follow in order; the worker leaves the waiting
\* state only when the previous worker controls no client or
\* self.skipWaiting() has been called; and the install handler has called it
\* by the time the worker is installed, so the worker is never held waiting.
C12_NeverHeldWaiting ==
    [][ /\ InOrder
        /\ LeavesWaiting => (~life.oldClients \/ skipWaitingFlag)
        /\ state' = "installed" => skipWaitingFlag' ]_vars

\* the worker has left the waiting state with the previous worker still
\* controlling a client and no SKIP_WAITING message delivered
C12_Witness ==
    /\ state = "activating"
    /\ life.oldClients
    /\ ~life.skipMessage

\* C13: when a staleWhileRevalidate call that missed the cache has returned
\* the network's 200 response, every identical request dispatched after that
\* response was returned, and whose own fetch fails, returns the cached copy
\* of that response, whether or not the first call's cache.put has settled.
C13_LaterRequestGetsCachedCopy ==
    \A i, j \in ReqIds :
        /\ reqs[i].strategy = "staleWhileRevalidate"
        /\ reqs[i].lookup = "miss"
        /\ reqs[i].net = "ok"
        /\ reqs[i].result = NetworkResponse(i, 200)
        /\ reqs[j].request = reqs[i].request
        /\ i \in reqs[j].after
        /\ reqs[j].net = "failed"
        /\ reqs[j].pc = "done"
        => reqs[j].result = NetworkResponse(i, 200)

\* no fetch has resolved: the network is unreachable
Unreachable == \A k \in ReqIds : reqs[k].net # "ok"

\* C14: with the network unreachable and an entry for the request in the
\* cache, every cacheFirst call for the request is a hit, any two of them
\* return the same cached response, and the CacheStorage is what it was before
\* the calls.
C14_HitIsIdempotent ==
    Unreachable =>
        /\ \A i \in ReqIds :
            /\ reqs[i].strategy = "cacheFirst"
            /\ reqs[i].pc # "cf_match"
            /\ MatchAll(initial, reqs[i].request.url) # None
            => /\ reqs[i].lookup = "hit"
               /\ reqs[i].pc = "done"
               /\ reqs[i].result = MatchAll(initial, reqs[i].request.url)
               /\ storage = initial
        /\ \A i, j \in ReqIds :
            /\ reqs[i].strategy = "cacheFirst" /\ reqs[i].lookup = "hit"
            /\ reqs[j].strategy = "cacheFirst" /\ reqs[j].lookup = "hit"
            /\ reqs[i].request = reqs[j].request
            => reqs[i].result = reqs[j].result

\* two cacheFirst calls for the same request have both returned its cached
\* entry, with no fetch resolved
C14_Witness ==
    /\ Unreachable
    /\ storage = initial
    /\ \E i, j \in ReqIds :
        /\ i # j
        /\ reqs[i].request = reqs[j].request
        /\ reqs[i].strategy = "cacheFirst" /\ reqs[i].lookup = "hit"
        /\ reqs[j].strategy = "cacheFirst" /\ reqs[j].lookup = "hit"
        /\ reqs[i].result = Stored
        /\ reqs[j].result = Stored

C16_StoredBeforeReturn ==
    \A i \in ReqIds :
        /\ reqs[i].strategy = "cacheFirst"
        /\ reqs[i].lookup = "miss"
        /\ reqs[i].net = "ok"
        /\ reqs[i].result = NetworkResponse(i, 200)
        => reqs[i].request.url \in KeySet(Entries(storage, reqs[i].cacheName))

\* C17: a cacheFirst call is a hit only on an entry of its target cache: an
\* entry under the same key in another cache alone is not a hit.
C17_LooksInTargetCache ==
    \A i \in ReqIds :
        /\ reqs[i].strategy = "cacheFirst"
        /\ reqs[i].lookup = "hit"
        => reqs[i].request.url \in KeySet(Entries(storage, reqs[i].cacheName))

\* C18: networkFirst reads the cache only after its fetch has rejected; when
\* the fetch has resolved it returns the network response, of any status, and
\* writes the cache only for a 200; when the fetch has rejected it returns the
\* cached copy if there is one and the synthesized 503 otherwise.
C18_NetworkBeforeCache ==
    \A i \in ReqIds :
        reqs[i].strategy = "networkFirst" =>
            /\ reqs[i].lookup # "none" => reqs[i].net = "failed"
            /\ reqs[i].net = "ok" /\ reqs[i].pc = "done" =>
                    reqs[i].result = reqs[i].netResp
            /\ reqs[i].put # "none" =>
                    reqs[i].net = "ok" /\ reqs[i].netResp.status = 200
            /\ reqs[i].net = "failed" /\ reqs[i].pc = "done" =>
                    reqs[i].result = IF reqs[i].cached # None
                                     THEN reqs[i].cached ELSE Offline(i)

\* C19: clients.claim() is called only when every caches.delete of the
\* activate handler has settled, and the activated worker has called it,
\* whether a delete failed or not.
C19_ClaimsWhateverDeleteDoes ==
    /\ life.claimed => life.todo = {}
    /\ state = "activated" => life.claimed

StaticKeys(st) == KeySet(Entries(st, STATIC_CACHE))

\* C20: no step of a fetch event or of the strategy it runs removes a key
\* from the current static cache; cacheFirst starts no eviction pass, and the
\* eviction passes that are started work on the dynamic or the images cache.
C20_FetchNeverShrinksStatic ==
    [][ /\ StaticKeys(storage) \subseteq StaticKeys(storage')
        /\ \A i \in ReqIds :
            /\ reqs'[i].strategy = "cacheFirst" => reqs'[i].ev.pc = "none"
            /\ reqs'[i].ev.pc # "none" =>
                    reqs'[i].cacheName \in {DYNAMIC_CACHE, IMAGE_CACHE} ]_vars

\* a cacheFirst call has stored its entry and the static cache holds more
\* entries than both LIMITS
C20_Witness ==
    \E i \in ReqIds :
        /\ reqs[i].strategy = "cacheFirst"
        /\ reqs[i].put = "stored"
        /\ reqs[i].request.url \in StaticKeys(storage)
        /\ Count(STATIC_CACHE) > LIMITS.dynamic
        /\ Count(STATIC_CACHE) > LIMITS.images

====
